---- MODULE Spec2Model ----
(***************************************************************************)
(* The playground page (PlaygroundPage): the variable editor, the          *)
(* conversion of variable entries (parseVariableValue), the run            *)
(* orchestration (runPrompt), the feedback callbacks and the clipboard      *)
(* copies (copyToClipboard).                                               *)
(*                                                                         *)
(* Text is a sequence of tokens.  A token is one character ("1", ".",     *)
(* "{", " ") or one of the fixed words "Infinity", "true", "false",       *)
(* "null", "__proto__" and the string literals of StringTokens; a token     *)
(* sequence                                                                *)
(* stands for the concatenation of its tokens.  "x" is a character that    *)
(* belongs to no number and no JSON text.                                  *)
(***************************************************************************)
EXTENDS Integers, Sequences, FiniteSets, TLC

VARIABLES
    variableFields,   \* useState: the VariableEntry list
    promptResponse,   \* useState: the RunResult, or Null
    feedbackIds,      \* useState: the FeedbackIdList
    widgetKey,        \* useState: the feedback widget's mount key
    error,            \* useState: the error slot, or NoError
    isRunning,        \* useState: a run is running
    showRunPrompt,    \* useState: the Run Prompt panel is open
    baseUrl,          \* process.env.NEXT_PUBLIC_EXTERNAL_API_URL is set
    pc,               \* position of the runPrompt handler's synchronous part
    fieldIdx,         \* runPrompt: position of the loop over variableFields
    variables,        \* runPrompt: the TypedVariableMap under construction
    inFlight,         \* number of unresolved client.runPrompt calls
    nextRunId,        \* the run identifier the remote API issues next
    nextFeedbackId,   \* the feedback identifier the widget reports next
    copiedRunId,      \* useState: the run identifier was copied just now
    copiedOutput,     \* useState: the output text was copied just now
    writes,           \* unsettled navigator.clipboard.writeText calls
    timers,           \* pending setTimeout callbacks, in the order set
    copies,           \* number of copyToClipboard calls so far
    copiedFor         \* history: the seconds for which each flag has been on

vars == <<variableFields, promptResponse, feedbackIds, widgetKey, error,
          isRunning, showRunPrompt, baseUrl, pc, fieldIdx, variables,
          inFlight, nextRunId, nextFeedbackId, copiedRunId, copiedOutput,
          writes, timers, copies, copiedFor>>

\* The state of the editor, the run and the feedback.
pageVars == <<variableFields, promptResponse, feedbackIds, widgetKey, error,
              isRunning, showRunPrompt, baseUrl, pc, fieldIdx, variables,
              inFlight, nextRunId, nextFeedbackId>>

\* The state of the clipboard copies.
copyVars == <<copiedRunId, copiedOutput, writes, timers, copies, copiedFor>>

-----------------------------------------------------------------------------
(* Bounds *)

MaxNumberLen == 4    \* longest raw text given to the number conversion
MaxJsonLen == 5      \* longest raw text given to the object conversion
MaxFields == 2       \* longest entry list of a run
MaxRuns == 2         \* successful runs per behaviour
MaxFeedback == 2     \* feedback submissions per behaviour
MaxCopies == 3       \* clipboard copies per behaviour

-----------------------------------------------------------------------------
(* Characters and text *)

VariableTypes == {"string", "number", "boolean", "list", "object"}

Digits == {"0", "1", "2", "3", "4", "5", "6", "7", "8", "9"}

DigitValue(c) ==
    CASE c = "0" -> 0 [] c = "1" -> 1 [] c = "2" -> 2 [] c = "3" -> 3
      [] c = "4" -> 4 [] c = "5" -> 5 [] c = "6" -> 6 [] c = "7" -> 7
      [] c = "8" -> 8 [] c = "9" -> 9

WhiteSpace == {" "}

StringTokens == {"\"a\""}

\* The character at position i of s, or "" past its end.
At(s, i) == IF i >= 1 /\ i <= Len(s) THEN s[i] ELSE ""

RECURSIVE SkipWhiteSpace(_, _)
SkipWhiteSpace(s, i) ==
    IF At(s, i) \in WhiteSpace THEN SkipWhiteSpace(s, i + 1) ELSE i

RECURSIVE TrimEnd(_)
TrimEnd(s) ==
    IF s # <<>> /\ s[Len(s)] \in WhiteSpace
    THEN TrimEnd(SubSeq(s, 1, Len(s) - 1))
    ELSE s

\* String.prototype.trim
Trim(s) == TrimEnd(SubSeq(s, SkipWhiteSpace(s, 1), Len(s)))

\* The position after the longest run of digits that starts at i.
RECURSIVE DigitsEnd(_, _)
DigitsEnd(s, i) ==
    IF At(s, i) \in Digits THEN DigitsEnd(s, i + 1) ELSE i

\* The decimal value of the digits s[i..j-1].
RECURSIVE DigitsValue(_, _, _)
DigitsValue(s, i, j) ==
    IF j <= i THEN 0
    ELSE 10 * DigitsValue(s, i, j - 1) + DigitValue(s[j - 1])

RECURSIVE Pow10(_)
Pow10(n) == IF n <= 0 THEN 1 ELSE 10 * Pow10(n - 1)

RECURSIVE NumDigits(_)
NumDigits(n) == IF n < 10 THEN 1 ELSE 1 + NumDigits(n \div 10)

-----------------------------------------------------------------------------
(* Numbers: the values of the JavaScript Number type that the model needs. *)
(* A finite number is sign * m * 10^e with m not divisible by 10.          *)

NaN == [k |-> "number", num |-> "NaN"]
Infinity(neg) == [k |-> "number", num |-> "Infinity", neg |-> neg]

RECURSIVE Normalize(_, _, _)
Normalize(neg, m, e) ==
    IF m = 0 THEN [k |-> "number", num |-> "finite", neg |-> neg, m |-> 0, e |-> 0]
    ELSE IF m % 10 = 0 THEN Normalize(neg, m \div 10, e + 1)
    ELSE [k |-> "number", num |-> "finite", neg |-> neg, m |-> m, e |-> e]

\* The two leading digits of m (m >= 1).
Lead2(m) == IF m < 10 THEN 10 * m ELSE m \div Pow10(NumDigits(m) - 2)

\* n is sign * m * 10^e, p the decimal exponent of its leading digit.
RoundAt(n, p, lead2) ==
    IF p > 308 \/ (p = 308 /\ lead2 >= 18) THEN Infinity(n.neg)
    ELSE IF p < -324 \/ (p = -324 /\ lead2 <= 24) THEN Normalize(n.neg, 0, 0)
    ELSE n

Round(n) ==
    IF n.m = 0 THEN n ELSE RoundAt(n, NumDigits(n.m) - 1 + n.e, Lead2(n.m))

\* The Number nearest to sign * m * 10^e: beyond the largest double
\* (1.7976931348623157e308) it is Infinity, below the smallest (5e-324) it
\* is zero.  The comparison reads the two leading digits of m, which is
\* exact for the mantissas of up to two digits that MaxNumberLen admits
\* next to a three-digit exponent.
ToNumber(neg, m, e) == Round(Normalize(neg, m, e))

IsNaN(v) == v.k = "number" /\ v.num = "NaN"

IsFinite(v) == v.k = "number" /\ v.num = "finite"

(* The scan of a decimal literal at position i: digits, optional fraction, *)
(* optional exponent.  strict is JSON's grammar (digits on both sides of   *)
(* the point, digits after the exponent mark, no leading zero); otherwise  *)
(* it is StrDecimalLiteral, of which parseFloat takes the longest prefix.  *)

\* The digits s[i..intEnd-1] with no fraction taken.
WithoutFraction(s, i, intEnd, hasPoint) ==
    [intLen |-> intEnd - i, hasPoint |-> hasPoint, fracLen |-> 0,
     m |-> DigitsValue(s, i, intEnd), end |-> intEnd]

\* The digits s[i..intEnd-1], the point, the digits s[intEnd+1..fracEnd-1].
WithFraction(s, i, intEnd, fracEnd) ==
    [intLen |-> intEnd - i, hasPoint |-> TRUE, fracLen |-> fracEnd - intEnd - 1,
     m |-> DigitsValue(s, i, intEnd) * Pow10(fracEnd - intEnd - 1)
           + DigitsValue(s, intEnd + 1, fracEnd),
     end |-> fracEnd]

ScanFraction(s, i, strict, intEnd, fracEnd) ==
    IF strict /\ fracEnd = intEnd + 1
    THEN WithoutFraction(s, i, intEnd, TRUE)
    ELSE WithFraction(s, i, intEnd, fracEnd)

ScanMantissa(s, i, strict, intEnd) ==
    IF At(s, intEnd) = "."
    THEN ScanFraction(s, i, strict, intEnd, DigitsEnd(s, intEnd + 1))
    ELSE WithoutFraction(s, i, intEnd, FALSE)

\* The exponent mark at markAt with the digits s[from..to-1]; without
\* digits the mark is no part of the literal.
ExponentOf(s, markAt, from, to) ==
    IF to > from
    THEN [hasMark |-> TRUE, used |-> TRUE, end |-> to,
          val |-> (IF At(s, markAt + 1) = "-" THEN -1 ELSE 1)
                  * DigitsValue(s, from, to)]
    ELSE [hasMark |-> TRUE, used |-> FALSE, end |-> markAt, val |-> 0]

ExponentFrom(s, markAt, from) == ExponentOf(s, markAt, from, DigitsEnd(s, from))

ScanExponent(s, at) ==
    IF At(s, at) \in {"e", "E"}
    THEN ExponentFrom(s, at, IF At(s, at + 1) \in {"+", "-"} THEN at + 2 ELSE at + 1)
    ELSE [hasMark |-> FALSE, used |-> FALSE, end |-> at, val |-> 0]

\* [ok, m, e, n]: the mantissa, the decimal exponent, the position after
\* the literal.
DecimalOf(s, i, strict, mant, exp) ==
    [ok |-> IF strict
            THEN /\ mant.intLen > 0
                 /\ (mant.intLen > 1 => At(s, i) # "0")
                 /\ (mant.hasPoint => mant.fracLen > 0)
                 /\ (exp.hasMark => exp.used)
            ELSE mant.intLen > 0 \/ mant.fracLen > 0,
     m |-> mant.m,
     e |-> exp.val - mant.fracLen,
     n |-> exp.end]

DecimalAfter(s, i, strict, mant) ==
    DecimalOf(s, i, strict, mant, ScanExponent(s, mant.end))

ScanDecimal(s, i, strict) ==
    DecimalAfter(s, i, strict, ScanMantissa(s, i, strict, DigitsEnd(s, i)))

ParseFloatOf(neg, d) == IF d.ok THEN ToNumber(neg, d.m, d.e) ELSE NaN

ParseFloatSigned(s, neg, j) ==
    IF At(s, j) = "Infinity" THEN Infinity(neg)
    ELSE ParseFloatOf(neg, ScanDecimal(s, j, FALSE))

ParseFloatAt(s, i) ==
    ParseFloatSigned(s, At(s, i) = "-",
                     IF At(s, i) \in {"+", "-"} THEN i + 1 ELSE i)

\* parseFloat: leading white space is skipped, then the longest prefix that
\* is a StrDecimalLiteral is converted; NaN when there is none.
parseFloat(s) == ParseFloatAt(s, SkipWhiteSpace(s, 1))

-----------------------------------------------------------------------------
(* JSON.parse.  A parsed value is a record whose k is the JSON kind:       *)
(* "object" (members: member name -> value, a repeated name keeps its last *)
(* value), "array" (items), "string", "number", "boolean" or "null".       *)
(* A parsing operator yields [ok, v, n]: n is the position after the       *)
(* value.                                                                  *)

JsonFail == [ok |-> FALSE, v |-> [k |-> "null"], n |-> 0]
JsonOk(v, n) == [ok |-> TRUE, v |-> v, n |-> n]

JsonNumberOf(neg, d) ==
    IF d.ok THEN JsonOk(ToNumber(neg, d.m, d.e), d.n) ELSE JsonFail

JsonNumber(s, i) ==
    JsonNumberOf(At(s, i) = "-",
                 ScanDecimal(s, IF At(s, i) = "-" THEN i + 1 ELSE i, TRUE))

RECURSIVE JsonElement(_, _)
RECURSIVE JsonValue(_, _)
RECURSIVE JsonElements(_, _, _)
RECURSIVE JsonElementsAfter(_, _, _)
RECURSIVE JsonMembers(_, _, _)
RECURSIVE JsonMembersAfter(_, _, _, _)

\* The white space after a parsed value is skipped.
JsonSkipAfter(s, r) ==
    IF r.ok THEN JsonOk(r.v, SkipWhiteSpace(s, r.n)) ELSE JsonFail

\* element: ws value ws
JsonElement(s, i) == JsonSkipAfter(s, JsonValue(s, SkipWhiteSpace(s, i)))

JsonValue(s, i) ==
    CASE At(s, i) = "{" ->
           IF At(s, SkipWhiteSpace(s, i + 1)) = "}"
           THEN JsonOk([k |-> "object", members |-> <<>>],
                       SkipWhiteSpace(s, i + 1) + 1)
           ELSE JsonMembers(s, i + 1, <<>>)
      [] At(s, i) = "[" ->
           IF At(s, SkipWhiteSpace(s, i + 1)) = "]"
           THEN JsonOk([k |-> "array", items |-> <<>>],
                       SkipWhiteSpace(s, i + 1) + 1)
           ELSE JsonElements(s, i + 1, <<>>)
      [] At(s, i) \in StringTokens ->
           JsonOk([k |-> "string", str |-> <<At(s, i)>>], i + 1)
      [] At(s, i) = "true" -> JsonOk([k |-> "boolean", b |-> TRUE], i + 1)
      [] At(s, i) = "false" -> JsonOk([k |-> "boolean", b |-> FALSE], i + 1)
      [] At(s, i) = "null" -> JsonOk([k |-> "null"], i + 1)
      [] At(s, i) = "-" \/ At(s, i) \in Digits -> JsonNumber(s, i)
      [] OTHER -> JsonFail

\* elements: element ("," element)* "]"
JsonElements(s, i, items) == JsonElementsAfter(s, items, JsonElement(s, i))

\* r is the element just parsed.
JsonElementsAfter(s, items, r) ==
    IF ~r.ok THEN JsonFail
    ELSE IF At(s, r.n) = ","
    THEN JsonElements(s, r.n + 1, Append(items, r.v))
    ELSE IF At(s, r.n) = "]"
    THEN JsonOk([k |-> "array", items |-> Append(items, r.v)], r.n + 1)
    ELSE JsonFail

\* members: ws string ws ":" element ("," member)* "}"
JsonMembers(s, i, members) ==
    IF \/ At(s, SkipWhiteSpace(s, i)) \notin StringTokens
       \/ At(s, SkipWhiteSpace(s, SkipWhiteSpace(s, i) + 1)) # ":"
    THEN JsonFail
    ELSE JsonMembersAfter(s, members, At(s, SkipWhiteSpace(s, i)),
             JsonElement(s, SkipWhiteSpace(s, SkipWhiteSpace(s, i) + 1) + 1))

\* r is the value just parsed for the member called name.
JsonMembersAfter(s, members, name, r) ==
    IF ~r.ok THEN JsonFail
    ELSE IF At(s, r.n) = ","
    THEN JsonMembers(s, r.n + 1, (name :> r.v) @@ members)
    ELSE IF At(s, r.n) = "}"
    THEN JsonOk([k |-> "object", members |-> (name :> r.v) @@ members], r.n + 1)
    ELSE JsonFail

\* JSON.parse(text): [ok, v]; ok is FALSE where JSON.parse throws a
\* SyntaxError.
JsonWhole(s, r) ==
    IF r.ok /\ r.n = Len(s) + 1
    THEN [ok |-> TRUE, v |-> r.v]
    ELSE [ok |-> FALSE, v |-> [k |-> "null"]]

JSONParse(s) == JsonWhole(s, JsonElement(s, 1))

\* Array.isArray and the typeof operator
IsArray(v) == v.k = "array"

TypeOf(v) ==
    CASE v.k \in {"object", "array", "null"} -> "object"
      [] v.k = "string" -> "string"
      [] v.k = "number" -> "number"
      [] v.k = "boolean" -> "boolean"

-----------------------------------------------------------------------------
(* The variable editor *)

Undefined == "undefined"

\* JavaScript null: the empty promptResponse and the empty error slot.
Null == [null |-> TRUE]

addVariableField(fields) ==
    Append(fields, [key |-> <<>>, type |-> "string", value |-> <<>>,
                    boolValue |-> FALSE, parseError |-> Undefined])

removeVariableField(fields, index) ==
    SubSeq(fields, 1, index - 1) \o SubSeq(fields, index + 1, Len(fields))

\* The raw value an entry gets when its type becomes newType.
DefaultValue(newType) ==
    CASE newType = "list" -> <<"[", "]">>
      [] newType = "object" -> <<"{", "}">>
      [] OTHER -> <<>>

\* UpdatedField with the raw value kept when the type changes.
UpdatedField_KeepsValue(old, field, value) ==
    CASE field = "type" ->
           [old EXCEPT !.type = value,
                       !.boolValue = IF value = "boolean" THEN FALSE ELSE @,
                       !.parseError = Undefined]
      [] field = "boolValue" -> [old EXCEPT !.boolValue = value]
      [] field = "key" -> [old EXCEPT !.key = value]
      [] field = "value" ->
           [old EXCEPT !.value = value,
                       !.parseError =
                           IF old.type \in {"list", "object"}
                           THEN IF JSONParse(value).ok THEN Undefined
                                ELSE "Invalid JSON"
                           ELSE @]

\* UpdatedField with the error of an earlier edit kept when the raw value
\* becomes valid JSON.
UpdatedField_KeepsError(old, field, value) ==
    CASE field = "type" ->
           [old EXCEPT !.type = value,
                       !.boolValue = IF value = "boolean" THEN FALSE ELSE @,
                       !.value = DefaultValue(value),
                       !.parseError = Undefined]
      [] field = "boolValue" -> [old EXCEPT !.boolValue = value]
      [] field = "key" -> [old EXCEPT !.key = value]
      [] field = "value" ->
           [old EXCEPT !.value = value,
                       !.parseError =
                           IF old.type \in {"list", "object"}
                           THEN IF JSONParse(value).ok THEN @
                                ELSE "Invalid JSON"
                           ELSE @]

\* The entry old after the update of one of its fields.
UpdatedField(old, field, value) ==
    CASE field = "type" ->
           [old EXCEPT !.type = value,
                       !.boolValue = IF value = "boolean" THEN FALSE ELSE @,
                       !.value = DefaultValue(value),
                       !.parseError = Undefined]
      [] field = "boolValue" -> [old EXCEPT !.boolValue = value]
      [] field = "key" -> [old EXCEPT !.key = value]
      [] field = "value" ->
           [old EXCEPT !.value = value,
                       !.parseError =
                           IF old.type \in {"list", "object"}
                           THEN IF JSONParse(value).ok THEN Undefined
                                ELSE "Invalid JSON"
                           ELSE @]

updateVariableField(fields, index, field, value) ==
    [fields EXCEPT ![index] = UpdatedField(fields[index], field, value)]

-----------------------------------------------------------------------------
(* Conversion *)

\* A message: its fixed text and the parts interpolated into it.
Message(text, key, summary, detail) ==
    [text |-> text, key |-> key, summary |-> summary, detail |-> detail]

Text(text) == Message(text, <<>>, "", <<>>)

\* A value returned, or an Error thrown with the message summary + detail.
Returned(v) == [ok |-> TRUE, v |-> v, summary |-> "", detail |-> <<>>]
Thrown(summary, detail) ==
    [ok |-> FALSE, v |-> Null, summary |-> summary, detail |-> detail]

NumberOf(value, parsed) ==
    IF IsNaN(parsed) THEN Thrown("Invalid number: ", value) ELSE Returned(parsed)

ListOf(parsed) ==
    IF ~parsed.ok THEN Thrown("Invalid list JSON: ", <<"SyntaxError">>)
    ELSE IF ~IsArray(parsed.v)
    THEN Thrown("Invalid list JSON: ", <<"Value must be an array">>)
    ELSE Returned(parsed.v)

ObjectOf(parsed) ==
    IF ~parsed.ok THEN Thrown("Invalid object JSON: ", <<"SyntaxError">>)
    ELSE IF IsArray(parsed.v) \/ TypeOf(parsed.v) # "object"
    THEN Thrown("Invalid object JSON: ", <<"Value must be an object">>)
    ELSE Returned(parsed.v)

parseVariableValue(type, value, boolValue) ==
    CASE type = "string" -> Returned([k |-> "string", str |-> value])
      [] type = "number" -> NumberOf(value, parseFloat(value))
      [] type = "boolean" -> Returned([k |-> "boolean", b |-> boolValue])
      [] type = "list" -> ListOf(JSONParse(value))
      [] type = "object" -> ObjectOf(JSONParse(value))

\* The key whose assignment reaches the __proto__ setter of Object.prototype.
ProtoKey == <<"__proto__">>

\* variables[key] = v, for variables an object created by {}: the own
\* properties afterwards.  A later assignment to a key replaces the earlier
\* one; the assignment to __proto__ adds no own property.
Assigned(map, key, v) == IF key = ProtoKey THEN map ELSE (key :> v) @@ map

\* The Error runPrompt throws for an entry whose conversion threw.
ParseFailure(field, thrown) ==
    Message("Error parsing variable", field.key, thrown.summary, thrown.detail)

ConfigurationError == Text("NEXT_PUBLIC_EXTERNAL_API_URL is not configured")

UnknownError == Text("An unknown error occurred")

\* catch (err): what setError receives.  err is [isError, message]:
\* isError is err instanceof Error.
CaughtMessage(err) == IF err.isError THEN err.message ELSE UnknownError

-----------------------------------------------------------------------------
(* The entry lists of a run.  Each entry is what the editor holds after    *)
(* add-entry and one update of its key, its type and its value.            *)

Filled(typed, type, value, boolValue) ==
    IF type = "boolean"
    THEN updateVariableField(typed, 1, "boolValue", boolValue)
    ELSE updateVariableField(typed, 1, "value", value)

Entry(key, type, value, boolValue) ==
    Filled(updateVariableField(
               updateVariableField(addVariableField(<<>>), 1, "key", key),
               1, "type", type),
           type, value, boolValue)[1]

SampleFields ==
    { Entry(<<"a">>, "number", <<"4", "2">>, FALSE),
      Entry(<<"a", " ">>, "string", <<"x">>, FALSE),
      Entry(<<" ">>, "object", <<"x">>, FALSE),
      Entry(<<"b">>, "number", <<"x">>, FALSE),
      Entry(<<"b">>, "object", <<"[", "]">>, FALSE),
      Entry(<<"b">>, "boolean", <<>>, TRUE) }

FieldLists == UNION { [1..n -> SampleFields] : n \in 0..MaxFields }

\* What client.runPrompt may reject with: an Error with a message, an Error
\* with an empty message, a value that is no Error but has a message, and a
\* value that is no Error and has none.
Rejections ==
    { [isError |-> TRUE, message |-> Text("Request failed")],
      [isError |-> TRUE, message |-> Text("")],
      [isError |-> FALSE, message |-> Text("Request failed")],
      [isError |-> FALSE, message |-> Text("")] }

\* What the feedback widget may pass to onError.
FeedbackErrors == { [isError |-> TRUE, message |-> Text("Feedback failed")] }

-----------------------------------------------------------------------------
(* Clipboard copies.  Time is counted in seconds.                          *)

\* setTimeout(..., 2000)
CopiedSeconds == 2

\* The setters copyToClipboard is called with.
Setters == {"setCopiedOutput", "setCopiedRunId"}

\* The flag that setCopied sets.
Copied(setCopied) ==
    IF setCopied = "setCopiedOutput" THEN copiedOutput ELSE copiedRunId

\* setCopied(value): the flags afterwards; the history restarts when the
\* flag changes.
SetCopied(setCopied, value) ==
    /\ copiedOutput' = IF setCopied = "setCopiedOutput" THEN value
                       ELSE copiedOutput
    /\ copiedRunId' = IF setCopied = "setCopiedRunId" THEN value
                      ELSE copiedRunId
    /\ copiedFor' = IF Copied(setCopied) = value THEN copiedFor
                    ELSE [copiedFor EXCEPT ![setCopied] = 0]

\* The sequence s without its element at i.
Without(s, i) == SubSeq(s, 1, i - 1) \o SubSeq(s, i + 1, Len(s))

-----------------------------------------------------------------------------
(* The page *)

Idle ==
    /\ promptResponse = Null
    /\ feedbackIds = <<>>
    /\ widgetKey = 0
    /\ error = Null
    /\ isRunning = FALSE
    /\ showRunPrompt = TRUE
    /\ pc = "idle"
    /\ fieldIdx = 0
    /\ variables = <<>>
    /\ inFlight = 0
    /\ nextRunId = 1
    /\ nextFeedbackId = 1
    /\ copiedRunId = FALSE
    /\ copiedOutput = FALSE
    /\ writes = <<>>
    /\ timers = <<>>
    /\ copies = 0
    /\ copiedFor = [setCopied \in Setters |-> 0]

Init ==
    /\ variableFields \in FieldLists
    /\ baseUrl \in BOOLEAN
    /\ Idle

\* SubmitEnabled with the button never disabled.
SubmitEnabled_NeverDisabled == showRunPrompt

\* The submit button is rendered inside the open Run Prompt panel and is
\* disabled while a run is running.
SubmitEnabled == showRunPrompt /\ ~isRunning

\* runPrompt without setPromptResponse(null).
runPrompt_KeepsResponse ==
    /\ pc = "idle"
    /\ showRunPrompt /\ ~isRunning
    /\ nextRunId <= MaxRuns
    /\ isRunning' = TRUE
    /\ error' = Null
    /\ feedbackIds' = <<>>
    /\ widgetKey' = 0
    /\ pc' = "convert"
    /\ fieldIdx' = 1
    /\ variables' = <<>>
    /\ UNCHANGED copyVars
    /\ UNCHANGED <<variableFields, promptResponse, showRunPrompt, baseUrl,
                   inFlight, nextRunId, nextFeedbackId>>

\* runPrompt without setFeedbackIds([]) and setWidgetKey(0).
runPrompt_KeepsFeedbackIds ==
    /\ pc = "idle"
    /\ showRunPrompt /\ ~isRunning
    /\ nextRunId <= MaxRuns
    /\ isRunning' = TRUE
    /\ error' = Null
    /\ promptResponse' = Null
    /\ pc' = "convert"
    /\ fieldIdx' = 1
    /\ variables' = <<>>
    /\ UNCHANGED copyVars
    /\ UNCHANGED <<variableFields, feedbackIds, widgetKey, showRunPrompt,
                   baseUrl, inFlight, nextRunId, nextFeedbackId>>

\* runPrompt, up to the try block: the run starts and the outputs of the
\* previous run are cleared.
runPrompt ==
    /\ pc = "idle"
    /\ SubmitEnabled
    /\ nextRunId <= MaxRuns
    /\ isRunning' = TRUE
    /\ error' = Null
    /\ promptResponse' = Null
    /\ feedbackIds' = <<>>
    /\ widgetKey' = 0
    /\ pc' = "convert"
    /\ fieldIdx' = 1
    /\ variables' = <<>>
    /\ UNCHANGED copyVars
    /\ UNCHANGED <<variableFields, showRunPrompt, baseUrl, inFlight,
                   nextRunId, nextFeedbackId>>

\* Fail without the finally block.
Fail_NoFinally(err) ==
    /\ error' = CaughtMessage(err)
    /\ pc' = "idle"
    /\ fieldIdx' = 0
    /\ variables' = <<>>
    /\ UNCHANGED isRunning

\* catch and finally of runPrompt: the error is stored and the run is over.
Fail(err) ==
    /\ error' = CaughtMessage(err)
    /\ isRunning' = FALSE
    /\ pc' = "idle"
    /\ fieldIdx' = 0
    /\ variables' = <<>>

\* Converted with a failing entry dropped instead of rethrown.
Converted_DropsFailure(field, r) ==
    IF Trim(field.key) = <<>> \/ ~r.ok
    THEN /\ fieldIdx' = fieldIdx + 1
         /\ UNCHANGED <<error, isRunning, pc, variables>>
    ELSE /\ variables' = Assigned(variables, Trim(field.key), r.v)
         /\ fieldIdx' = fieldIdx + 1
         /\ UNCHANGED <<error, isRunning, pc>>

\* Converted without the test of the key.
Converted_ConvertsBlankKey(field, r) ==
    IF r.ok
    THEN /\ variables' = Assigned(variables, Trim(field.key), r.v)
         /\ fieldIdx' = fieldIdx + 1
         /\ UNCHANGED <<error, isRunning, pc>>
    ELSE Fail([isError |-> TRUE, message |-> ParseFailure(field, r)])

\* Converted with the failure recorded and the loop continued.
Converted_KeepsGoing(field, r) ==
    IF Trim(field.key) = <<>>
    THEN /\ fieldIdx' = fieldIdx + 1
         /\ UNCHANGED <<error, isRunning, pc, variables>>
    ELSE IF r.ok
    THEN /\ variables' = Assigned(variables, Trim(field.key), r.v)
         /\ fieldIdx' = fieldIdx + 1
         /\ UNCHANGED <<error, isRunning, pc>>
    ELSE /\ error' = ParseFailure(field, r)
         /\ fieldIdx' = fieldIdx + 1
         /\ UNCHANGED <<isRunning, pc, variables>>

\* One turn of the loop over variableFields, for the entry field: r is
\* what parseVariableValue returns or throws for it.
Converted(field, r) ==
    IF Trim(field.key) = <<>>
    THEN /\ fieldIdx' = fieldIdx + 1
         /\ UNCHANGED <<error, isRunning, pc, variables>>
    ELSE IF r.ok
    THEN /\ variables' = Assigned(variables, Trim(field.key), r.v)
         /\ fieldIdx' = fieldIdx + 1
         /\ UNCHANGED <<error, isRunning, pc>>
    ELSE Fail([isError |-> TRUE, message |-> ParseFailure(field, r)])

ParsedField(field) ==
    parseVariableValue(field.type, field.value, field.boolValue)

convertField ==
    /\ pc = "convert"
    /\ fieldIdx <= Len(variableFields)
    /\ Converted(variableFields[fieldIdx], ParsedField(variableFields[fieldIdx]))
    /\ UNCHANGED copyVars
    /\ UNCHANGED <<variableFields, promptResponse, feedbackIds, widgetKey,
                   showRunPrompt, baseUrl, inFlight, nextRunId, nextFeedbackId>>

\* callClient without the check of the base URL.
callClient_NoBaseUrlCheck ==
    /\ pc = "convert"
    /\ fieldIdx > Len(variableFields)
    /\ inFlight' = inFlight + 1
    /\ pc' = "idle"
    /\ fieldIdx' = 0
    /\ variables' = <<>>
    /\ UNCHANGED <<error, isRunning>>
    /\ UNCHANGED copyVars
    /\ UNCHANGED <<variableFields, promptResponse, feedbackIds, widgetKey,
                   showRunPrompt, baseUrl, nextRunId, nextFeedbackId>>

\* After the loop: the base URL is required, then the client is built and
\* client.runPrompt is called; the handler is suspended at the await.
callClient ==
    /\ pc = "convert"
    /\ fieldIdx > Len(variableFields)
    /\ IF ~baseUrl
       THEN /\ Fail([isError |-> TRUE, message |-> ConfigurationError])
            /\ UNCHANGED inFlight
       ELSE /\ inFlight' = inFlight + 1
            /\ pc' = "idle"
            /\ fieldIdx' = 0
            /\ variables' = <<>>
            /\ UNCHANGED <<error, isRunning>>
    /\ UNCHANGED copyVars
    /\ UNCHANGED <<variableFields, promptResponse, feedbackIds, widgetKey,
                   showRunPrompt, baseUrl, nextRunId, nextFeedbackId>>

\* The call resolved: the RunResult is stored and the panel is collapsed.
runResolved ==
    /\ pc = "idle"
    /\ inFlight > 0
    /\ inFlight' = inFlight - 1
    /\ promptResponse' = [runId |-> nextRunId]
    /\ nextRunId' = nextRunId + 1
    /\ showRunPrompt' = FALSE
    /\ isRunning' = FALSE
    /\ UNCHANGED copyVars
    /\ UNCHANGED <<variableFields, feedbackIds, widgetKey, error, baseUrl, pc,
                   fieldIdx, variables, nextFeedbackId>>

\* The call rejected with err.
runRejected(err) ==
    /\ pc = "idle"
    /\ inFlight > 0
    /\ inFlight' = inFlight - 1
    /\ error' = CaughtMessage(err)
    /\ isRunning' = FALSE
    /\ UNCHANGED copyVars
    /\ UNCHANGED <<variableFields, promptResponse, feedbackIds, widgetKey,
                   showRunPrompt, baseUrl, pc, fieldIdx, variables, nextRunId,
                   nextFeedbackId>>

\* The feedback widget is rendered only with a RunResult, and with its runId.
WidgetMounted == promptResponse # Null

\* The feedback widget invokes onSuccess and onError for a submission made
\* in it, while it is mounted; a widget that has been unmounted reports
\* nothing.
WidgetReports == WidgetMounted

\* onSuccess without setWidgetKey.
onSuccess_NoRemount ==
    /\ pc = "idle"
    /\ WidgetReports
    /\ nextFeedbackId <= MaxFeedback
    /\ feedbackIds' = Append(feedbackIds, [runId |-> promptResponse.runId,
                                           id |-> nextFeedbackId])
    /\ nextFeedbackId' = nextFeedbackId + 1
    /\ UNCHANGED copyVars
    /\ UNCHANGED <<variableFields, promptResponse, widgetKey, error, isRunning,
                   showRunPrompt, baseUrl, pc, fieldIdx, variables, inFlight,
                   nextRunId>>

\* onSuccess of the feedback widget: the widget, mounted for the run
\* promptResponse.runId, reports the identifier of a stored feedback item.
onSuccess ==
    /\ pc = "idle"
    /\ WidgetReports
    /\ nextFeedbackId <= MaxFeedback
    /\ feedbackIds' = Append(feedbackIds, [runId |-> promptResponse.runId,
                                           id |-> nextFeedbackId])
    /\ widgetKey' = widgetKey + 1
    /\ nextFeedbackId' = nextFeedbackId + 1
    /\ UNCHANGED copyVars
    /\ UNCHANGED <<variableFields, promptResponse, error, isRunning,
                   showRunPrompt, baseUrl, pc, fieldIdx, variables, inFlight,
                   nextRunId>>

\* onError of the feedback widget.
onError(err) ==
    /\ pc = "idle"
    /\ WidgetReports
    /\ error' = err.message
    /\ UNCHANGED copyVars
    /\ UNCHANGED <<variableFields, promptResponse, feedbackIds, widgetKey,
                   isRunning, showRunPrompt, baseUrl, pc, fieldIdx, variables,
                   inFlight, nextRunId, nextFeedbackId>>

\* onOpenChange of the Run Prompt panel.
setShowRunPrompt(open) ==
    /\ pc = "idle"
    /\ open # showRunPrompt
    /\ showRunPrompt' = open
    /\ UNCHANGED copyVars
    /\ UNCHANGED <<variableFields, promptResponse, feedbackIds, widgetKey,
                   error, isRunning, baseUrl, pc, fieldIdx, variables,
                   inFlight, nextRunId, nextFeedbackId>>

Next ==
    \/ runPrompt
    \/ convertField
    \/ callClient
    \/ runResolved
    \/ \E err \in Rejections : runRejected(err)
    \/ onSuccess
    \/ \E err \in FeedbackErrors : onError(err)
    \/ \E open \in BOOLEAN : setShowRunPrompt(open)

Spec == Init /\ [][Next]_vars

\* The position of the runPrompt handler.
position == <<pc, fieldIdx>>

\* A step of the synchronous part of runPrompt: a turn of the loop, or the
\* step after it.  It is possible exactly when pc = "convert", and every
\* such step of Next is a convertField or a callClient step.
SyncStep ==
    /\ pc = "convert"
    /\ pc' \in {"convert", "idle"}
    /\ \E i \in 0..(Len(variableFields) + 1) : i # fieldIdx /\ fieldIdx' = i

\* The remote call settles.
Settle == runResolved \/ \E err \in Rejections : runRejected(err)

\* JavaScript runs the synchronous part of runPrompt to its end, and the
\* remote call settles.
LiveSpec ==
    /\ Spec
    /\ WF_position(SyncStep)
    /\ WF_vars(Settle)

-----------------------------------------------------------------------------
(* Runs of one entry: the conversion of one raw text.  No base URL is      *)
(* configured, so a run ends in its synchronous part.                      *)

Texts(alphabet, maxLen) == UNION { [1..n -> alphabet] : n \in 0..maxLen }

NumberAlphabet == {"1", "2", "3", "4", ".", "-", "e", " ", "x", "Infinity"}

JsonAlphabet == {"{", "}", "[", "]", ":", ",", "\"a\"", "1", "null"}

InitNumber ==
    /\ \E raw \in Texts(NumberAlphabet, MaxNumberLen) :
           variableFields = <<Entry(<<"a">>, "number", raw, FALSE)>>
    /\ baseUrl = FALSE
    /\ Idle

InitObject ==
    /\ \E raw \in Texts(JsonAlphabet, MaxJsonLen) :
           variableFields = <<Entry(<<"a">>, "object", raw, FALSE)>>
    /\ baseUrl = FALSE
    /\ Idle

NextSync ==
    \/ runPrompt
    \/ convertField
    \/ callClient

SpecNumber == InitNumber /\ [][NextSync]_vars

SpecObject == InitObject /\ [][NextSync]_vars

-----------------------------------------------------------------------------
(* The variable editor at work: entries are added, edited and removed      *)
(* through the controls the page renders for them.                         *)

EditKeys == {<<"a">>}

\* The raw values typed into the input of an entry of the given type: text
\* for a string, a numeral for a number, and for a list and an object a
\* text that is no JSON text and one that is.
EditValues(type) ==
    CASE type = "string" -> {<<"x">>}
      [] type = "number" -> {<<"1">>}
      [] type \in {"list", "object"} -> {<<"x">>, <<"[", "]">>}
      [] OTHER -> {}

\* What the control of the field of entry may pass to updateVariableField.
EditInputs(entry, field) ==
    CASE field = "key" -> EditKeys
      [] field = "type" -> VariableTypes
      [] field = "value" -> EditValues(entry.type)
      [] field = "boolValue" -> BOOLEAN

\* The controls rendered for an entry: the key input and the type select
\* always, the switch for a boolean, the value input for every other type.
Rendered(entry) ==
    {"key", "type"} \cup (IF entry.type = "boolean" THEN {"boolValue"}
                          ELSE {"value"})

\* The button "Add Variable".
AddVariable ==
    /\ pc = "idle"
    /\ Len(variableFields) < MaxFields
    /\ variableFields' = addVariableField(variableFields)
    /\ UNCHANGED copyVars
    /\ UNCHANGED <<promptResponse, feedbackIds, widgetKey, error, isRunning,
                   showRunPrompt, baseUrl, pc, fieldIdx, variables, inFlight,
                   nextRunId, nextFeedbackId>>

\* The remove button of the entry at index.
RemoveVariable(index) ==
    /\ pc = "idle"
    /\ variableFields' = removeVariableField(variableFields, index)
    /\ UNCHANGED copyVars
    /\ UNCHANGED <<promptResponse, feedbackIds, widgetKey, error, isRunning,
                   showRunPrompt, baseUrl, pc, fieldIdx, variables, inFlight,
                   nextRunId, nextFeedbackId>>

\* A control of the entry at index changes: onChange, onValueChange or
\* onCheckedChange.
UpdateVariable(index, field, value) ==
    /\ pc = "idle"
    /\ field \in Rendered(variableFields[index])
    /\ variableFields' = updateVariableField(variableFields, index, field, value)
    /\ UNCHANGED copyVars
    /\ UNCHANGED <<promptResponse, feedbackIds, widgetKey, error, isRunning,
                   showRunPrompt, baseUrl, pc, fieldIdx, variables, inFlight,
                   nextRunId, nextFeedbackId>>

InitEditor ==
    /\ variableFields = <<>>
    /\ baseUrl = FALSE
    /\ Idle

NextEditor ==
    \/ AddVariable
    \/ \E index \in 1..Len(variableFields) : RemoveVariable(index)
    \/ \E index \in 1..Len(variableFields) :
           \E field \in {"key", "type", "value", "boolValue"} :
               \E value \in EditInputs(variableFields[index], field) :
                   UpdateVariable(index, field, value)

SpecEditor == InitEditor /\ [][NextEditor]_vars

-----------------------------------------------------------------------------
(* Runs of an entry list: the construction of the TypedVariableMap.  The   *)
(* keys are empty, blank, plain, padded and __proto__; the values are one  *)
(* that converts for each type and one that does not for each type that    *)
(* can fail.                                                               *)

ConvertKeys == {<<>>, <<" ">>, <<"a">>, <<" ", "a">>, ProtoKey}

ConvertFields ==
    UNION { { Entry(key, "string", <<"x">>, FALSE),
              Entry(key, "number", <<"1">>, FALSE),
              Entry(key, "number", <<"x">>, FALSE),
              Entry(key, "boolean", <<>>, TRUE),
              Entry(key, "list", <<"[", "]">>, FALSE),
              Entry(key, "list", <<"x">>, FALSE),
              Entry(key, "object", <<"{", "}">>, FALSE),
              Entry(key, "object", <<"x">>, FALSE) } : key \in ConvertKeys }

InitConvert ==
    /\ variableFields \in UNION { [1..n -> ConvertFields] : n \in 0..MaxFields }
    /\ baseUrl = FALSE
    /\ Idle

SpecConvert == InitConvert /\ [][NextSync]_vars

-----------------------------------------------------------------------------
(* Clipboard copies of the output text and of the run identifier, beside   *)
(* runs without variables.                                                 *)

\* The response card, with its two copy buttons, is rendered.
ResponseShown == promptResponse # Null

\* copyToClipboard up to its await: a copy button is clicked and
\* navigator.clipboard.writeText is called.
copyToClipboard(setCopied) ==
    /\ pc = "idle"
    /\ ResponseShown
    /\ copies < MaxCopies
    /\ writes' = Append(writes, setCopied)
    /\ copies' = copies + 1
    /\ UNCHANGED <<copiedRunId, copiedOutput, timers, copiedFor>>
    /\ UNCHANGED pageVars

\* writeText resolved: the flag is set and its reset is scheduled.
writeResolved(i) ==
    /\ pc = "idle"
    /\ SetCopied(writes[i], TRUE)
    /\ timers' = Append(timers, [setCopied |-> writes[i],
                                 left |-> CopiedSeconds])
    /\ writes' = Without(writes, i)
    /\ UNCHANGED copies
    /\ UNCHANGED pageVars

\* writeText rejected: the failure is logged.
writeRejected(i) ==
    /\ pc = "idle"
    /\ writes' = Without(writes, i)
    /\ UNCHANGED <<copiedRunId, copiedOutput, timers, copies, copiedFor>>
    /\ UNCHANGED pageVars

\* The callback of the timer that is due: () => setCopied(false).
timeout ==
    /\ pc = "idle"
    /\ timers # <<>>
    /\ Head(timers).left = 0
    /\ SetCopied(Head(timers).setCopied, FALSE)
    /\ timers' = Tail(timers)
    /\ UNCHANGED <<writes, copies>>
    /\ UNCHANGED pageVars

\* A second passes while timers are pending and none is due.
Tick ==
    /\ pc = "idle"
    /\ timers # <<>>
    /\ \A i \in 1..Len(timers) : timers[i].left > 0
    /\ timers' = [i \in 1..Len(timers) |->
                      [timers[i] EXCEPT !.left = @ - 1]]
    /\ copiedFor' = [setCopied \in Setters |->
                         IF Copied(setCopied) THEN copiedFor[setCopied] + 1
                         ELSE 0]
    /\ UNCHANGED <<copiedRunId, copiedOutput, writes, copies>>
    /\ UNCHANGED pageVars

InitCopy ==
    /\ variableFields = <<>>
    /\ baseUrl = TRUE
    /\ Idle

NextCopy ==
    \/ runPrompt
    \/ callClient
    \/ runResolved
    \/ \E err \in Rejections : runRejected(err)
    \/ \E open \in BOOLEAN : setShowRunPrompt(open)
    \/ \E setCopied \in Setters : copyToClipboard(setCopied)
    \/ \E i \in 1..Len(writes) : writeResolved(i)
    \/ \E i \in 1..Len(writes) : writeRejected(i)
    \/ timeout
    \/ Tick

SpecCopy == InitCopy /\ [][NextCopy]_vars

-----------------------------------------------------------------------------
(* Claims *)

\* The outputs of a run: none is stored.
OutputsCleared ==
    /\ promptResponse = Null
    /\ error = Null
    /\ feedbackIds = <<>>

\* C1: a new run clears the RunResult, the error and the FeedbackIdList
\* before any entry is converted, and no output of an earlier run is stored
\* while the new run is running.
C1_RunStartsCleared ==
    /\ (pc = "convert" => isRunning)
    /\ (isRunning => OutputsCleared)

\* A run that follows a successful run with feedback is at its first entry.
C1_Witness ==
    /\ pc = "convert"
    /\ fieldIdx = 1
    /\ variableFields # <<>>
    /\ nextRunId > 1
    /\ nextFeedbackId > 1

\* C2: at most one call of client.runPrompt is unresolved, and while one is
\* unresolved the run is running and the submit control is disabled.
C2_OneRunInFlight ==
    /\ inFlight <= 1
    /\ (inFlight = 1 => isRunning /\ ~SubmitEnabled)

\* A call is unresolved while the panel with the submit button is open.
C2_Witness == inFlight = 1 /\ showRunPrompt /\ pc = "idle"

\* The run has failed at the entry field: the error names the entry and the
\* run is over without a RunResult.
FailedAt(field) ==
    /\ pc' = "idle"
    /\ isRunning' = FALSE
    /\ promptResponse' = Null
    /\ error' # Null
    /\ error'.text = "Error parsing variable"
    /\ error'.key = field.key

\* The entry field has been converted to the value v.
ConvertedTo(field, v) ==
    /\ pc' = "convert"
    /\ fieldIdx' = fieldIdx + 1
    /\ Trim(field.key) \in DOMAIN variables'
    /\ variables'[Trim(field.key)] = v

\* The loop of runPrompt is at an entry with a non-empty trimmed key.
AtKeyedEntry ==
    /\ pc = "convert"
    /\ fieldIdx <= Len(variableFields)
    /\ Trim(variableFields[fieldIdx].key) # <<>>

\* C9: the conversion of a number entry succeeds exactly when the raw text
\* parses to a finite number, and then yields that number; for every other
\* raw text the run fails with an error that names the variable.
C9_NumberFiniteOrFails ==
    [][(AtKeyedEntry /\ variableFields[fieldIdx].type = "number") =>
          IF IsFinite(parseFloat(variableFields[fieldIdx].value))
          THEN ConvertedTo(variableFields[fieldIdx],
                           parseFloat(variableFields[fieldIdx].value))
          ELSE FailedAt(variableFields[fieldIdx])]_vars

\* C10: the conversion of an object entry succeeds exactly when the raw
\* text is valid JSON whose value is a non-array object; it fails for text
\* that is not valid JSON, for an array and for every primitive, null
\* included.
C10_ObjectOnlyObjects ==
    [][(AtKeyedEntry /\ variableFields[fieldIdx].type = "object") =>
          IF /\ JSONParse(variableFields[fieldIdx].value).ok
             /\ JSONParse(variableFields[fieldIdx].value).v.k = "object"
          THEN ConvertedTo(variableFields[fieldIdx],
                           JSONParse(variableFields[fieldIdx].value).v)
          ELSE FailedAt(variableFields[fieldIdx])]_vars

\* C3: when the conversion of an entry with a non-empty trimmed key fails,
\* the client is not invoked for the run, the error names the entry's key,
\* no RunResult is stored and the run is over.
C3_ConversionFailureAborts ==
    [][(AtKeyedEntry /\ ~ParsedField(variableFields[fieldIdx]).ok) =>
          /\ FailedAt(variableFields[fieldIdx])
          /\ inFlight = 0
          /\ inFlight' = 0]_vars

\* A run has failed at an entry although the base URL is configured.
C3_Witness ==
    /\ baseUrl
    /\ pc = "idle"
    /\ ~isRunning
    /\ error # Null
    /\ error.text = "Error parsing variable"
    /\ promptResponse = Null
    /\ inFlight = 0

\* C4 as claimed: a run without a base URL ends with the configuration
\* error.
C4_AlwaysConfigurationError ==
    [][(~baseUrl /\ isRunning /\ ~isRunning') =>
          error' = ConfigurationError]_vars

\* C4: a run without a base URL never invokes the client and ends without a
\* RunResult; its error is the configuration error when every entry with a
\* key converted, and the conversion error of the failing entry otherwise.
C4_NoBaseUrlNoCall ==
    /\ [](~baseUrl => inFlight = 0 /\ promptResponse = Null)
    /\ [][(~baseUrl /\ isRunning /\ ~isRunning') =>
             /\ promptResponse' = Null
             /\ IF fieldIdx > Len(variableFields)
                THEN error' = ConfigurationError
                ELSE FailedAt(variableFields[fieldIdx])]_vars

\* A run without a base URL has ended with the configuration error.
C4_Witness ==
    /\ ~baseUrl
    /\ ~isRunning
    /\ pc = "idle"
    /\ error = ConfigurationError
    /\ promptResponse = Null

\* The message the claim C5 expects for the rejection err.
ExpectedRejectionMessage(err) ==
    IF err.message.text # "" THEN err.message ELSE UnknownError

\* C5: when the call rejects, the error is the rejection's own message when
\* it has one and the fallback when it has none; no RunResult is stored and
\* the run is over.
C5_RejectionMessageOrFallback ==
    [][\A err \in Rejections :
          runRejected(err) =>
             /\ error' = ExpectedRejectionMessage(err)
             /\ promptResponse' = Null
             /\ isRunning' = FALSE]_vars

\* C6: a running run ends; when it ends with a RunResult the panel is
\* collapsed, and when it ends without one an error is stored and the panel
\* is as it was.
C6_RunEnds ==
    /\ isRunning ~> ~isRunning
    /\ [][(isRunning /\ ~isRunning') =>
             IF promptResponse' # Null
             THEN showRunPrompt' = FALSE
             ELSE showRunPrompt' = showRunPrompt /\ error' # Null]_vars

\* A run has ended with a RunResult and the panel collapsed.
C6_Witness ==
    /\ ~isRunning
    /\ promptResponse # Null
    /\ ~showRunPrompt
    /\ inFlight = 0

\* C7: the mount key equals the length of the FeedbackIdList, and the list
\* holds the identifiers reported since the run's result was stored, in the
\* order they were reported.
C7_FeedbackAppendsAndRemounts ==
    /\ widgetKey = Len(feedbackIds)
    /\ \A i \in 1..Len(feedbackIds) :
           feedbackIds[i].id = nextFeedbackId - Len(feedbackIds) + i - 1

\* Two feedback submissions followed one successful run.
C7_Witness ==
    /\ promptResponse # Null
    /\ Len(feedbackIds) = 2
    /\ widgetKey = 2

Keyed(field) == Trim(field.key) # <<>>

\* The loop of runPrompt is over: every entry has been converted or skipped.
LoopDone == pc = "convert" /\ fieldIdx = Len(variableFields) + 1

\* C11: an entry whose key is empty or blank is passed over by the loop,
\* whatever its type and whether or not its raw value converts: nothing is
\* added to the TypedVariableMap, no error is stored and the run goes on;
\* the map never has an empty or blank key.
C11_BlankKeySkipped ==
    /\ [](\A k \in DOMAIN variables : k # <<>> /\ Trim(k) = k)
    /\ [][(/\ pc = "convert"
           /\ fieldIdx <= Len(variableFields)
           /\ ~Keyed(variableFields[fieldIdx])) =>
              /\ variables' = variables
              /\ pc' = "convert"
              /\ fieldIdx' = fieldIdx + 1
              /\ error' = Null
              /\ isRunning']_vars

\* The loop is over a list with a keyed entry and an entry with a blank key
\* whose raw value does not convert.
C11_Witness ==
    /\ LoopDone
    /\ DOMAIN variables # {}
    /\ \E i \in 1..Len(variableFields) :
           /\ ~Keyed(variableFields[i])
           /\ ~ParsedField(variableFields[i]).ok

\* The trimmed keys of the entries, the empty one left out.
TrimmedKeys(fields) ==
    { Trim(fields[i].key) : i \in 1..Len(fields) } \ {<<>>}

\* The position of the last entry whose trimmed key is k.
LastWith(fields, k) ==
    CHOOSE i \in 1..Len(fields) :
        /\ Trim(fields[i].key) = k
        /\ \A j \in (i + 1)..Len(fields) : Trim(fields[j].key) # k

\* C12: when every keyed entry converts, the keys of the TypedVariableMap
\* are exactly the non-empty trimmed keys of the entries, and the value of
\* a key is the converted value of the last entry with that key.
C12_LastEntryWins ==
    LoopDone =>
        /\ DOMAIN variables = TrimmedKeys(variableFields)
        /\ \A k \in DOMAIN variables :
               variables[k] =
                   ParsedField(variableFields[LastWith(variableFields, k)]).v

\* The position of the first keyed entry from i on whose conversion fails,
\* or 0.
RECURSIVE FirstFailure(_, _)
FirstFailure(fields, i) ==
    IF i > Len(fields) THEN 0
    ELSE IF Keyed(fields[i]) /\ ~ParsedField(fields[i]).ok THEN i
    ELSE FirstFailure(fields, i + 1)

\* The map built from the first n entries, all of which convert.
RECURSIVE MapOf(_, _)
MapOf(fields, n) ==
    IF n = 0 THEN <<>>
    ELSE IF Keyed(fields[n])
    THEN Assigned(MapOf(fields, n - 1), Trim(fields[n].key),
                  ParsedField(fields[n]).v)
    ELSE MapOf(fields, n - 1)

\* The error of a run that fails at the entry field.
FailureOf(field) == ParseFailure(field, ParsedField(field))

\* C15: the loop converts the entries in list order and stops at the first
\* keyed entry whose conversion fails: it never gets past that entry, the
\* run ends there with that entry's error, and what has been built so far
\* is the map of the entries before it.  The map and the failure are
\* functions of the entry list.
C15_FailFast ==
    /\ [](pc = "convert" =>
            /\ variables = MapOf(variableFields, fieldIdx - 1)
            /\ (FirstFailure(variableFields, 1) # 0 =>
                    fieldIdx <= FirstFailure(variableFields, 1)))
    /\ [][(pc = "convert" /\ fieldIdx = FirstFailure(variableFields, 1)) =>
              /\ FailedAt(variableFields[fieldIdx])
              /\ error' = FailureOf(variableFields[fieldIdx])]_vars

\* A run has failed at the first of two keyed entries that fail with
\* different errors.
C15_Witness ==
    /\ pc = "idle"
    /\ ~isRunning
    /\ Len(variableFields) = 2
    /\ FirstFailure(variableFields, 1) = 1
    /\ FirstFailure(variableFields, 2) = 2
    /\ error = FailureOf(variableFields[1])
    /\ error # FailureOf(variableFields[2])

\* C13: a change of an entry's type to t gives the entry the type t and the
\* default raw value of t, switches a boolean off and clears the validation
\* error, whatever the entry held before; its key and the other entries
\* stay as they were.
C13_TypeChangeResets ==
    [][\A index \in 1..Len(variableFields) : \A t \in VariableTypes :
           UpdateVariable(index, "type", t) =>
               /\ Len(variableFields') = Len(variableFields)
               /\ variableFields'[index].type = t
               /\ variableFields'[index].value =
                      (CASE t = "list" -> <<"[", "]">>
                         [] t = "object" -> <<"{", "}">>
                         [] OTHER -> <<>>)
               /\ (t = "boolean" => variableFields'[index].boolValue = FALSE)
               /\ variableFields'[index].parseError = Undefined
               /\ variableFields'[index].key = variableFields[index].key
               /\ \A j \in 1..Len(variableFields) :
                      j # index => variableFields'[j] = variableFields[j]]_vars

\* The first entry was a boolean switched on and has become a number (its
\* switch is still on, its raw value is the default); the second entry
\* still carries its validation error.
C13_Witness ==
    /\ Len(variableFields) = 2
    /\ variableFields[1].type = "number"
    /\ variableFields[1].boolValue
    /\ variableFields[1].value = <<>>
    /\ variableFields[1].key = <<"a">>
    /\ variableFields[2].parseError = "Invalid JSON"

\* The raw value of the entry is JSON text.
ValidJson(entry) == JSONParse(entry.value).ok

\* C16: in the editor an entry carries the validation error "Invalid JSON"
\* exactly when it is a list or an object whose raw value is not JSON text,
\* and carries no error otherwise; an edit of a raw value stores the value
\* it was given, valid or not.
C16_ErrorIffInvalidJson ==
    /\ [](\A i \in 1..Len(variableFields) :
            /\ variableFields[i].parseError \in {Undefined, "Invalid JSON"}
            /\ variableFields[i].parseError = "Invalid JSON" <=>
                   /\ variableFields[i].type \in {"list", "object"}
                   /\ ~ValidJson(variableFields[i]))
    /\ [][\A index \in 1..Len(variableFields) :
              \A value \in EditValues(variableFields[index].type) :
                  UpdateVariable(index, "value", value) =>
                      variableFields'[index].value = value]_vars

\* A list whose raw value is no JSON text carries the error, beside a
\* string with the same raw value that carries none.
C16_Witness ==
    /\ Len(variableFields) = 2
    /\ \E i, j \in 1..2 :
           /\ variableFields[i].type = "list"
           /\ variableFields[i].value = <<"x">>
           /\ variableFields[i].parseError = "Invalid JSON"
           /\ variableFields[j].type = "string"
           /\ variableFields[j].value = <<"x">>
           /\ variableFields[j].parseError = Undefined

\* C14: a copied flag that a successful copy turned on stays on for two
\* seconds and is then turned off, whatever else happens meanwhile; no step
\* changes both flags; a failed copy changes neither flag nor the error.
C14_CopiedForTwoSeconds ==
    /\ [](\A setCopied \in Setters :
            Copied(setCopied) => copiedFor[setCopied] <= CopiedSeconds)
    /\ [][\A setCopied \in Setters :
              (Copied(setCopied) /\ ~Copied(setCopied)') =>
                  copiedFor[setCopied] = CopiedSeconds]_vars
    /\ [][copiedOutput' = copiedOutput \/ copiedRunId' = copiedRunId]_vars
    /\ [][\A i \in 1..Len(writes) :
              writeRejected(i) =>
                  UNCHANGED <<copiedOutput, copiedRunId, error>>]_vars
====
